---- MODULE Spec2Model ----
(***************************************************************************)
(* Model of backend/main.py: three Firebase function handlers              *)
(* (send_test_notification, schedule_notification, send_notification),     *)
(* the FCM provider and the Cloud Tasks queue they call, and the clock.    *)
(*                                                                         *)
(* A handler invocation occupies one slot.  It is split where the code     *)
(* blocks: the handler runs on its request up to its early return          *)
(* (pc = "done") or its external call (pc = "calling"), and then the       *)
(* external call returns or raises (pc = "done").                          *)
(***************************************************************************)
EXTENDS Integers, Sequences, FiniteSets, TLC

\* ---------------------------------------------------------------- bounds
NumInv == 2
MaxTime == 1
MaxDelay == 1

Slots == 1..NumInv

\* ------------------------------------------------------- JSON values
\* A JSON value is a tagged tuple; a dict is a sequence of <<key, value>>
\* pairs in insertion order.
Null == <<"null">>
Str(s) == <<"str", s>>
Num(n) == <<"int", n>>
Bool(b) == <<"bool", b>>
Arr == <<"arr">>
Obj(pairs) == <<"obj", pairs>>

IsObj(v) == v[1] = "obj"
IsStr(v) == v[1] = "str"

HasKey(d, k) == \E n \in 1..Len(d[2]) : d[2][n][1] = k

\* dict.get(k, default)
Get(d, k, default) ==
    IF HasKey(d, k)
    THEN d[2][CHOOSE n \in 1..Len(d[2]) : d[2][n][1] = k][2]
    ELSE default

\* mutant: the test written as `is None`, so an empty token passes
Truthy_isnotnone(v) == v[1] # "null"

\* Python truth value of a JSON value (the `not x` tests)
Truthy(v) ==
    CASE v[1] = "null" -> FALSE
      [] v[1] = "str"  -> v[2] # ""
      [] v[1] = "int"  -> v[2] # 0
      [] v[1] = "bool" -> v[2]
      [] v[1] = "arr"  -> FALSE
      [] v[1] = "obj"  -> Len(v[2]) > 0

\* json.dumps: a value to its text, as a sequence of lexical tokens
RECURSIVE Dumps(_), DumpMembers(_)
Dumps(v) ==
    CASE v[1] = "null" -> << <<"null">> >>
      [] v[1] = "str"  -> << v >>
      [] v[1] = "int"  -> << v >>
      [] v[1] = "bool" -> IF v[2] THEN << <<"true">> >> ELSE << <<"false">> >>
      [] v[1] = "arr"  -> << <<"[">>, <<"]">> >>
      [] v[1] = "obj"  -> << <<"{">> >> \o DumpMembers(v[2]) \o << <<"}">> >>

DumpMembers(pairs) ==
    IF Len(pairs) = 0 THEN <<>>
    ELSE LET m == << Str(pairs[1][1]), <<":">> >> \o Dumps(pairs[1][2])
         IN  IF Len(pairs) = 1 THEN m
             ELSE m \o << <<",">> >> \o DumpMembers(Tail(pairs))

\* json.loads: a recursive-descent parse of the token text
ParseFail == [ok |-> FALSE, val |-> Null, pos |-> 0]
ParseOk(v, p) == [ok |-> TRUE, val |-> v, pos |-> p]

\* a later duplicate key replaces the earlier one
SetKey(pairs, k, v) ==
    IF \E n \in 1..Len(pairs) : pairs[n][1] = k
    THEN [n \in 1..Len(pairs) |-> IF pairs[n][1] = k THEN <<k, v>> ELSE pairs[n]]
    ELSE Append(pairs, <<k, v>>)

RECURSIVE ParseValue(_, _), ParseMembers(_, _, _)
ParseValue(t, p) ==
    IF p > Len(t) THEN ParseFail
    ELSE LET k == t[p][1] IN
         CASE k = "null"  -> ParseOk(Null, p + 1)
           [] k = "true"  -> ParseOk(Bool(TRUE), p + 1)
           [] k = "false" -> ParseOk(Bool(FALSE), p + 1)
           [] k = "str"   -> ParseOk(t[p], p + 1)
           [] k = "int"   -> ParseOk(t[p], p + 1)
           [] k = "["     -> IF p + 1 <= Len(t) /\ t[p + 1][1] = "]"
                             THEN ParseOk(Arr, p + 2) ELSE ParseFail
           [] k = "{"     -> IF p + 1 <= Len(t) /\ t[p + 1][1] = "}"
                             THEN ParseOk(Obj(<<>>), p + 2)
                             ELSE ParseMembers(t, p + 1, <<>>)
           [] OTHER       -> ParseFail

ParseMembers(t, p, acc) ==
    IF p + 2 > Len(t) \/ t[p][1] # "str" \/ t[p + 1][1] # ":" THEN ParseFail
    ELSE LET r == ParseValue(t, p + 2) IN
         IF ~r.ok \/ r.pos > Len(t) THEN ParseFail
         ELSE LET acc2 == SetKey(acc, t[p][2], r.val) IN
              CASE t[r.pos][1] = "," -> ParseMembers(t, r.pos + 1, acc2)
                [] t[r.pos][1] = "}" -> ParseOk(Obj(acc2), r.pos + 1)
                [] OTHER             -> ParseFail

Loads(t) ==
    LET r == ParseValue(t, 1)
    IN  IF r.ok /\ r.pos = Len(t) + 1 THEN r ELSE ParseFail

\* Request.get_json(): raises unless the content type is JSON and the body
\* parses; err is str(e) of the raised exception
JsonType == "application/json"
GetJson(req) ==
    IF req.content_type # JsonType
    THEN [ok |-> FALSE, val |-> Null, err |-> "415 Unsupported Media Type"]
    ELSE LET r == Loads(req.body)
         IN  IF r.ok THEN [ok |-> TRUE, val |-> r.val, err |-> ""]
             ELSE [ok |-> FALSE, val |-> Null, err |-> "400 Bad Request"]

\* int(x) of line 99: integers pass, numeric strings convert, the rest raise
Numerals == {"0", "1"}
PyInt(v) ==
    CASE v[1] = "int" -> [ok |-> TRUE, val |-> v[2], err |-> ""]
      [] v[1] = "str" /\ v[2] \in Numerals ->
             [ok |-> TRUE, val |-> IF v[2] = "0" THEN 0 ELSE 1, err |-> ""]
      [] v[1] = "str" -> [ok |-> FALSE, val |-> 0, err |-> "invalid literal for int()"]
      [] v[1] = "bool" -> [ok |-> TRUE, val |-> IF v[2] THEN 1 ELSE 0, err |-> ""]
      [] OTHER -> [ok |-> FALSE, val |-> 0, err |-> "int() argument must be a string or a number"]

\* ------------------------------------------------------------- state
VARIABLES config, now, inv, queue
vars == <<config, now, inv, queue>>

\* module level configuration, read once at import
project_id == "demo-project"
location == "us-central1"
queue_name == "fcm-notification-queue"

Idle == [h |-> "none", pc |-> "idle", req |-> <<>>, task |-> 0, clock |-> <<>>,
         calls |-> <<>>, reply |-> <<>>, resp |-> <<>>]

Init ==
    /\ config = [project_id |-> project_id, location |-> location,
                 queue_name |-> queue_name]
    /\ now = 0
    /\ inv = [i \in Slots |-> Idle]
    /\ queue = <<>>

\* ------------------------------------------------------ responses
\* https_fn.Response(json.dumps(v), status=..., content_type="application/json")
JsonResponse(v, status) ==
    [status |-> status, body |-> Dumps(v), content_type |-> JsonType]

\* https_fn.Response("text", status=...): a plain text body, Flask's default type
TextResponse(s, status) ==
    [status |-> status, body |-> << <<"text", s>> >>, content_type |-> "text/html"]

\* an exception that leaves the handler: the framework's crash, no response of ours
Unhandled(e) == [status |-> 0, body |-> << <<"text", e>> >>, content_type |-> "crash"]

Return(r) == [t |-> "return", resp |-> r, clock |-> <<>>]
Call(c, clk) == [t |-> "call", call |-> c, clock |-> clk]

\* mutant: the except clause re-raises instead of answering
sn_except_reraise(e) == Unhandled(e)

\* the except clauses of the three handlers
stn_except(e) == Obj(<< <<"success", Bool(FALSE)>>, <<"error", Str(e)>> >>)
sched_except(e) == JsonResponse(Obj(<< <<"error", Str(e)>> >>), 500)
sn_except(e) == JsonResponse(Obj(<< <<"error", Str(e)>> >>), 500)

AttributeError == "object has no attribute 'get'"

\* messaging.Message(notification=Notification(title, body), token, apns=...)
Message(token, title, body) ==
    [token |-> token, title |-> title, body |-> body, badge |-> 1, sound |-> "default"]

\* -------------------------------------------- send_test_notification
SendTestNotification(req) ==
    LET data == req.data IN
    IF ~IsObj(data) THEN Return(stn_except(AttributeError))
    ELSE IF ~Truthy(Get(data, "token", Null))
    THEN Return(Obj(<< <<"success", Bool(FALSE)>>,
                       <<"error", Str("Missing device token")>> >>))
    ELSE Call([api |-> "messaging.send",
               message |-> Message(Get(data, "token", Null),
                                   Get(data, "title", Str("Test Notification")),
                                   Get(data, "body",
                                       Str("This is a test notification from Firebase")))],
              <<>>)

stn_success(id) == Obj(<< <<"success", Bool(TRUE)>>, <<"message_id", Str(id)>> >>)

\* ---------------------------------------------- schedule_notification
DefaultDelay == 60

\* datetime.isoformat() of a time counted in seconds
Isoformat(t) == "T" \o ToString(t)

\* tasks_client.queue_path(project, location, queue)
QueuePath(cfg) ==
    "projects/" \o cfg.project_id \o "/locations/" \o cfg.location
        \o "/queues/" \o cfg.queue_name

FunctionUrl(cfg) ==
    "https://" \o cfg.location \o "-" \o cfg.project_id
        \o ".cloudfunctions.net/send_notification"

\* mutant: the task is created with the GET method
TaskOf_get(token, title, body, scheduled_time, cfg) ==
    [http_method |-> "GET",
     url |-> FunctionUrl(cfg),
     headers |-> << <<"Content-Type", JsonType>> >>,
     body |-> Dumps(Obj(<< <<"token", token>>,
                           <<"notification",
                             Obj(<< <<"title", title>>, <<"body", body>> >>)>> >>)),
     schedule_time |-> [datetime |-> scheduled_time, suffix |-> "Z"]]

\* mutant: the payload is flat, title and body beside the token
TaskOf_flat(token, title, body, scheduled_time, cfg) ==
    [http_method |-> "POST",
     url |-> FunctionUrl(cfg),
     headers |-> << <<"Content-Type", JsonType>> >>,
     body |-> Dumps(Obj(<< <<"token", token>>, <<"title", title>>,
                           <<"body", body>> >>)),
     schedule_time |-> [datetime |-> scheduled_time, suffix |-> "Z"]]

\* lines 110-131: the payload and the task built from the request fields
TaskOf(token, title, body, scheduled_time, cfg) ==
    [http_method |-> "POST",
     url |-> FunctionUrl(cfg),
     headers |-> << <<"Content-Type", JsonType>> >>,
     body |-> Dumps(Obj(<< <<"token", token>>,
                           <<"notification",
                             Obj(<< <<"title", title>>, <<"body", body>> >>)>> >>)),
     schedule_time |-> [datetime |-> scheduled_time, suffix |-> "Z"]]

ScheduleNotification(req, cfg, utcnow) ==
    IF req.method # "POST"
    THEN Return(JsonResponse(Obj(<< <<"error", Str("Only POST requests are accepted")>> >>),
                             405))
    ELSE LET j == GetJson(req) IN
         IF ~j.ok THEN Return(sched_except(j.err))
         ELSE IF ~IsObj(j.val) THEN Return(sched_except(AttributeError))
         ELSE IF ~Truthy(Get(j.val, "token", Null))
         THEN Return(JsonResponse(Obj(<< <<"error", Str("Missing device token")>> >>), 400))
         ELSE LET d == PyInt(Get(j.val, "delay", Num(DefaultDelay))) IN
              IF ~d.ok THEN Return(sched_except(d.err))
              ELSE Call([api |-> "create_task",
                         parent |-> QueuePath(cfg),
                         task |-> TaskOf(Get(j.val, "token", Null),
                                         Get(j.val, "title", Str("Scheduled Notification")),
                                         Get(j.val, "body",
                                             Str("This is a scheduled notification from Firebase")),
                                         utcnow + d.val, cfg)],
                        <<utcnow>>)

sched_success(name, scheduled_time) ==
    JsonResponse(Obj(<< <<"success", Bool(TRUE)>>,
                        <<"scheduled", Bool(TRUE)>>,
                        <<"task_name", Str(name)>>,
                        <<"scheduled_time", Str(Isoformat(scheduled_time))>>,
                        <<"message", Str("Notification scheduled for "
                                         \o Isoformat(scheduled_time))>> >>),
                 200)

\* -------------------------------------------------- send_notification
SendNotification(req) ==
    IF req.method # "POST"
    THEN Return(TextResponse("Only POST requests are accepted", 405))
    ELSE LET j == GetJson(req) IN
         IF ~j.ok THEN Return(sn_except(j.err))
         ELSE IF ~IsObj(j.val) THEN Return(sn_except(AttributeError))
         ELSE LET token == Get(j.val, "token", Null)
                  notification_data == Get(j.val, "notification", Obj(<<>>))
              IN  IF ~Truthy(token) THEN Return(TextResponse("Missing token", 400))
                  ELSE IF ~IsObj(notification_data)
                  THEN Return(sn_except(AttributeError))
                  ELSE Call([api |-> "messaging.send",
                             message |-> Message(token,
                                 Get(notification_data, "title", Str("Notification")),
                                 Get(notification_data, "body",
                                     Str("You have a notification")))],
                            <<>>)

sn_success(id) ==
    JsonResponse(Obj(<< <<"success", Bool(TRUE)>>, <<"message_id", Str(id)>> >>), 200)

\* ---------------------------------------------------- the requests
Tok == Str("abc")
Malformed == << <<"{">>, Str("token") >>

HttpReq(method, ctype, body) == [method |-> method, content_type |-> ctype, body |-> body]

CallableData ==
    { Null,
      Obj(<<>>),
      Obj(<< <<"token", Str("")>>, <<"title", Str("Hi")>> >>),
      Obj(<< <<"token", Tok>>, <<"title", Str("Hi")>> >>) }

ScheduleValues ==
    { Obj(<<>>),
      Obj(<< <<"token", Str("")>>, <<"delay", Num(0)>> >>),
      Obj(<< <<"token", Tok>> >>),
      Obj(<< <<"token", Tok>>, <<"delay", Str("soon")>> >>),
      Obj(<< <<"token", Tok>>, <<"title", Str("Hi")>>, <<"body", Str("")>>,
             <<"delay", Num(-1)>> >>) }
    \cup { Obj(<< <<"token", Tok>>, <<"delay", Num(d)>> >>) : d \in 0..MaxDelay }

ScheduleRequests ==
    { HttpReq("POST", JsonType, Dumps(v)) : v \in ScheduleValues }
    \cup { HttpReq("POST", "text/plain", Dumps(Obj(<< <<"token", Tok>> >>))),
           HttpReq("GET", JsonType, Dumps(Obj(<<>>))) }

SendValues ==
    { Arr,
      Obj(<<>>),
      Obj(<< <<"token", Str("")>>,
             <<"notification", Obj(<< <<"title", Str("Hi")>> >>)>> >>),
      Obj(<< <<"token", Tok>> >>),
      Obj(<< <<"token", Tok>>, <<"notification", Null>> >>),
      Obj(<< <<"token", Tok>>,
             <<"notification", Obj(<< <<"title", Str("Hi")>>, <<"body", Str("")>> >>)>> >>) }

SendRequests ==
    { HttpReq("POST", JsonType, Dumps(v)) : v \in SendValues }
    \cup { HttpReq("POST", JsonType, Malformed),
           HttpReq("GET", JsonType, Dumps(Obj(<<>>))) }

\* what the external services answer
MessageIds == {"projects/demo-project/messages/1"}
ProviderErrors == {"UNAVAILABLE"}

\* ------------------------------------------------------- the steps
\* an invocation takes the lowest idle slot
Free(i) == inv[i].pc = "idle" /\ \A j \in Slots : j < i => inv[j].pc # "idle"

\* the handler runs from its first line to its return or to its external call
Invoke(i, h, req, t, o) ==
    /\ Free(i)
    /\ inv' = [inv EXCEPT ![i] =
                 IF o.t = "return"
                 THEN [Idle EXCEPT !.h = h, !.req = req, !.task = t, !.pc = "done",
                                   !.resp = <<o.resp>>]
                 ELSE [Idle EXCEPT !.h = h, !.req = req, !.task = t, !.pc = "calling",
                                   !.clock = o.clock, !.calls = <<o.call>>]]

send_test_notification(i) ==
    /\ \E d \in CallableData :
          Invoke(i, "send_test_notification", [data |-> d], 0,
                 SendTestNotification([data |-> d]))
    /\ UNCHANGED <<config, now, queue>>

\* mutant: the handler rebinds the module level queue_name
schedule_notification_cfg(i) ==
    /\ \E r \in ScheduleRequests :
          Invoke(i, "schedule_notification", r, 0, ScheduleNotification(r, config, now))
    /\ config' = [config EXCEPT !.queue_name = "fcm-notification-queue-2"]
    /\ UNCHANGED <<now, queue>>

schedule_notification(i) ==
    /\ \E r \in ScheduleRequests :
          Invoke(i, "schedule_notification", r, 0, ScheduleNotification(r, config, now))
    /\ UNCHANGED <<config, now, queue>>

\* mutant: a payload already sent is acknowledged without a second send
send_notification_dedup(i) ==
    /\ \E r \in SendRequests :
          Invoke(i, "send_notification", r, 0,
                 IF \E j \in Slots : /\ inv[j].h = "send_notification"
                                     /\ inv[j].req = r /\ inv[j].calls # <<>>
                 THEN Return(sn_success("deduplicated"))
                 ELSE SendNotification(r))
    /\ UNCHANGED <<config, now, queue>>

\* a client posts to the function's public url
send_notification(i) ==
    /\ \E r \in SendRequests :
          Invoke(i, "send_notification", r, 0, SendNotification(r))
    /\ UNCHANGED <<config, now, queue>>

\* the queue's parse of the task's schedule_time text
Timestamp(s) == s.datetime

HeaderOf(headers, k, default) ==
    IF \E n \in 1..Len(headers) : headers[n][1] = k
    THEN headers[CHOOSE n \in 1..Len(headers) : headers[n][1] = k][2]
    ELSE default

\* the request Cloud Tasks makes for a task
CallbackRequest(task) ==
    HttpReq(task.http_method,
            HeaderOf(task.headers, "Content-Type", "application/octet-stream"),
            task.body)

\* Cloud Tasks calls the task's url when the task is due, and may deliver a
\* task more than once: send_notification runs on the task's request
QueueDeliver(i) ==
    /\ \E t \in 1..Len(queue) :
          /\ Timestamp(queue[t].task.schedule_time) <= now
          /\ Invoke(i, "send_notification", CallbackRequest(queue[t].task), t,
                    SendNotification(CallbackRequest(queue[t].task)))
    /\ UNCHANGED <<config, now, queue>>

Calling(i, api) ==
    /\ inv[i].pc = "calling"
    /\ inv[i].calls[Len(inv[i].calls)].api = api

Finish(i, reply, r) ==
    inv' = [inv EXCEPT ![i].pc = "done", ![i].reply = <<reply>>, ![i].resp = <<r>>]

\* response = messaging.send(message) returns the message id
MessagingSendReturns(i) ==
    /\ Calling(i, "messaging.send")
    /\ \E id \in MessageIds :
          Finish(i, [ok |-> TRUE, val |-> id],
                 IF inv[i].h = "send_test_notification" THEN stn_success(id)
                 ELSE sn_success(id))
    /\ UNCHANGED <<config, now, queue>>

\* mutant: a failed send is tried again
MessagingSendRaises_retry(i) ==
    /\ Calling(i, "messaging.send")
    /\ inv' = [inv EXCEPT ![i].calls = Append(@, @[Len(@)])]
    /\ UNCHANGED <<config, now, queue>>

\* messaging.send(message) raises; the handler's except clause answers
MessagingSendRaises(i) ==
    /\ Calling(i, "messaging.send")
    /\ \E e \in ProviderErrors :
          Finish(i, [ok |-> FALSE, val |-> e],
                 IF inv[i].h = "send_test_notification" THEN stn_except(e)
                 ELSE sn_except(e))
    /\ UNCHANGED <<config, now, queue>>

\* tasks_client.create_task accepts the task and names it
CreateTaskReturns(i) ==
    /\ Calling(i, "create_task")
    /\ LET c == inv[i].calls[Len(inv[i].calls)]
           name == c.parent \o "/tasks/" \o ToString(Len(queue) + 1)
       IN  /\ queue' = Append(queue, [name |-> name, task |-> c.task, by |-> i])
           /\ Finish(i, [ok |-> TRUE, val |-> name],
                     sched_success(name, c.task.schedule_time.datetime))
    /\ UNCHANGED <<config, now>>

CreateTaskRaises(i) ==
    /\ Calling(i, "create_task")
    /\ \E e \in ProviderErrors :
          Finish(i, [ok |-> FALSE, val |-> e], sched_except(e))
    /\ UNCHANGED <<config, now, queue>>

Tick ==
    /\ now < MaxTime
    /\ now' = now + 1
    /\ UNCHANGED <<config, inv, queue>>

Next ==
    \/ \E i \in Slots : send_test_notification(i)
    \/ \E i \in Slots : schedule_notification(i)
    \/ \E i \in Slots : send_notification(i)
    \/ \E i \in Slots : QueueDeliver(i)
    \/ \E i \in Slots : MessagingSendReturns(i)
    \/ \E i \in Slots : MessagingSendRaises(i)
    \/ \E i \in Slots : CreateTaskReturns(i)
    \/ \E i \in Slots : CreateTaskRaises(i)
    \/ Tick

Spec == Init /\ [][Next]_vars

\* ------------------------------------------------------ vocabulary
Handlers == {"send_test_notification", "schedule_notification", "send_notification"}
Started(i) == inv[i].pc # "idle"
Done(i) == inv[i].pc = "done"
IsHttp(i) == inv[i].h \in {"schedule_notification", "send_notification"}
Resp(i) == inv[i].resp[1]
Replied(i) == Len(inv[i].reply) = 1
Raised(i) == Replied(i) /\ ~inv[i].reply[1].ok
Accepted(i) == Replied(i) /\ inv[i].reply[1].ok

\* the fields the client put in the request: the callable's data, or the
\* JSON text of the HTTP body
Fields(i) ==
    IF inv[i].h = "send_test_notification" THEN inv[i].req.data
    ELSE LET r == Loads(inv[i].req.body) IN IF r.ok THEN r.val ELSE Arr

\* the token field is absent, null or the empty string
TokenMissing(i) ==
    /\ Started(i)
    /\ LET f == Fields(i) IN IsObj(f) /\ Get(f, "token", Null) \in {Null, Str("")}

StnFailure(r) ==
    /\ IsObj(r)
    /\ Get(r, "success", Null) = Bool(FALSE)
    /\ IsStr(Get(r, "error", Null))

\* an HTTP body that is JSON text of an object with an `error` string
JsonError(r) ==
    LET p == Loads(r.body)
    IN  p.ok /\ IsObj(p.val) /\ IsStr(Get(p.val, "error", Null))

C2_FailuresAreJsonErrors ==
    \A i \in Slots :
        Done(i) =>
            IF IsHttp(i)
            THEN Resp(i).status # 200 => JsonError(Resp(i))
            ELSE Get(Resp(i), "success", Null) # Bool(TRUE) => StnFailure(Resp(i))

\* a delay that is present and is not an integer
InvalidDelay(i) ==
    /\ inv[i].h = "schedule_notification"
    /\ IsObj(Fields(i)) /\ HasKey(Fields(i), "delay")
    /\ Get(Fields(i), "delay", Null)[1] # "int"

ValidPost(i) ==
    /\ inv[i].req.method = "POST"
    /\ GetJson(inv[i].req).ok /\ IsObj(Fields(i))
    /\ ~TokenMissing(i) /\ ~InvalidDelay(i)

\* (C3) For the HTTP entry points a non-POST method gives 405, a POST with a
\* missing token or a delay that is not an integer gives 400, a POST whose
\* external call raises gives 500, and 200 is returned exactly when the
\* request is a valid POST and the external call returned.
C3_StatusOfRequest ==
    \A i \in Slots :
        (Done(i) /\ IsHttp(i)) =>
            /\ inv[i].req.method # "POST" => Resp(i).status = 405
            /\ (inv[i].req.method = "POST" /\ GetJson(inv[i].req).ok
                  /\ (TokenMissing(i) \/ InvalidDelay(i))) => Resp(i).status = 400
            /\ (inv[i].req.method = "POST" /\ Raised(i)) => Resp(i).status = 500
            /\ Resp(i).status = 200 <=> (ValidPost(i) /\ Accepted(i))

ApiOf(h) == IF h = "schedule_notification" THEN "create_task" ELSE "messaging.send"

\* the error text a failure response carries
ErrorText(i) ==
    IF IsHttp(i) THEN Get(Loads(Resp(i).body).val, "error", Null)
    ELSE Get(Resp(i), "error", Null)

\* (C4) No handler retries: every invocation makes at most one external
\* call, of its own service, and when that call raises the invocation returns
\* an error result carrying the exception text, with no second call.
C4_NoRetry ==
    \A i \in Slots :
        /\ Len(inv[i].calls) <= 1
        /\ \A n \in 1..Len(inv[i].calls) : inv[i].calls[n].api = ApiOf(inv[i].h)
        /\ Raised(i) =>
              /\ Done(i)
              /\ Len(inv[i].calls) = 1
              /\ IF IsHttp(i) THEN Resp(i).status = 500 /\ JsonError(Resp(i))
                 ELSE StnFailure(Resp(i))
              /\ ErrorText(i) = Str(inv[i].reply[1].val)

C4_Witness ==
    /\ \E i \in Slots : Raised(i) /\ inv[i].h = "schedule_notification"
    /\ \E i \in Slots : Raised(i) /\ inv[i].h = "send_test_notification"

\* (C5) Every handler invocation ends by returning a structured response:
\* a result object with a success flag from the callable, a response with an
\* HTTP status from the HTTP handlers; no exception escapes a handler.
C5_NoUnhandledCrash ==
    \A i \in Slots :
        /\ inv[i].pc \in {"idle", "calling", "done"}
        /\ inv[i].pc = "calling" => Len(inv[i].calls) = 1 /\ ~Replied(i)
        /\ Done(i) =>
              /\ Len(inv[i].resp) = 1
              /\ IF IsHttp(i)
                 THEN /\ Resp(i).status \in {200, 400, 405, 500}
                      /\ Resp(i).content_type # "crash"
                 ELSE IsObj(Resp(i)) /\ Get(Resp(i), "success", Null)[1] = "bool"

\* malformed JSON on /send_notification: 500, error populated, no external call
C5_Witness ==
    \E i \in Slots :
        /\ Done(i) /\ inv[i].h = "send_notification"
        /\ inv[i].req.method = "POST" /\ ~Loads(inv[i].req.body).ok
        /\ Resp(i).status = 500 /\ JsonError(Resp(i))
        /\ inv[i].calls = <<>>

DelaySeconds(i) == PyInt(Get(Fields(i), "delay", Num(DefaultDelay))).val

\* (C7) Every submitted task's scheduleTime is the UTC time of the request
\* plus delaySeconds (60 when delay is absent) with delaySeconds >= 0, so no
\* task is submitted with a scheduleTime earlier than its request.
C7_ScheduleTimeNotEarlier ==
    \A i \in Slots :
        (Started(i) /\ inv[i].h = "schedule_notification" /\ inv[i].calls # <<>>) =>
            LET st == Timestamp(inv[i].calls[1].task.schedule_time)
                t0 == inv[i].clock[1]
            IN  /\ st = t0 + DelaySeconds(i)
                /\ DelaySeconds(i) >= 0
                /\ st >= t0

\* a callback payload the handler can send: a token and, if present, a
\* notification object
SendablePayload(i) ==
    /\ inv[i].h = "send_notification" /\ Started(i)
    /\ inv[i].req.method = "POST" /\ inv[i].req.content_type = JsonType
    /\ LET f == Fields(i)
       IN  /\ IsObj(f)
           /\ Get(f, "token", Null) \notin {Null, Str("")}
           /\ IsObj(Get(f, "notification", Obj(<<>>)))

\* (C8) The callback handler does not deduplicate: when the same payload is
\* delivered to send_notification twice, in sequence or concurrently, each
\* delivery makes its own messaging.send call, and each one the provider
\* accepts returns 200 with success:true.
C8_NoDeduplication ==
    \A i, j \in Slots :
        (i # j /\ Started(i) /\ Started(j) /\ inv[i].req = inv[j].req
              /\ SendablePayload(i) /\ SendablePayload(j)) =>
            /\ Len(inv[i].calls) = 1
            /\ inv[i].calls[1].api = "messaging.send"
            /\ inv[i].calls = inv[j].calls
            /\ Accepted(i) =>
                  /\ Resp(i).status = 200
                  /\ Get(Loads(Resp(i).body).val, "success", Null) = Bool(TRUE)

C8_Witness ==
    \E i, j \in Slots :
        /\ i # j /\ SendablePayload(i) /\ SendablePayload(j)
        /\ inv[i].req = inv[j].req
        /\ Accepted(i) /\ Accepted(j)

\* (C9) Concurrent invocations are independent: no step writes the process
\* configuration, a step changes the invocation it belongs to and no other,
\* and two invocations of one handler that have the same request, clock
\* reading and external reply have the same external call and response.
C9_Independent ==
    /\ [][ /\ config' = config
           /\ \A i, j \in Slots :
                 (inv'[i] # inv[i] /\ inv'[j] # inv[j]) => i = j ]_vars
    /\ [](\A i, j \in Slots :
             (/\ Started(i) /\ Started(j)
              /\ inv[i].h = inv[j].h /\ inv[i].req = inv[j].req
              /\ inv[i].clock = inv[j].clock /\ inv[i].reply = inv[j].reply
              /\ inv[i].pc = inv[j].pc)
                => (inv[i].calls = inv[j].calls /\ inv[i].resp = inv[j].resp))

C9_Witness ==
    \E i, j \in Slots :
        /\ i # j /\ Done(i) /\ Done(j)
        /\ inv[i].h = "schedule_notification" /\ inv[j].h = "schedule_notification"
        /\ inv[i].req = inv[j].req /\ inv[i].clock = inv[j].clock
        /\ Raised(i) /\ inv[i].reply = inv[j].reply
        /\ inv[i].calls # <<>> /\ Resp(i).status = 500

\* the notification the scheduler embeds for a schedule request
ScheduledMessage(r) ==
    LET f == GetJson(r).val
    IN  Message(Get(f, "token", Null),
                Get(f, "title", Str("Scheduled Notification")),
                Get(f, "body", Str("This is a scheduled notification from Firebase")))

\* (C10) Round trip of the task payload: the task of every accepted schedule
\* request is a POST to the send_notification url whose body is
\* {token, notification:{title, body}} with the request's fields (the
\* scheduler's defaults for absent ones), and when the queue delivers it,
\* send_notification passes exactly that token, title and body to
\* messaging.send and never answers 400 or 405.
C10_PayloadRoundTrip ==
    /\ \A i \in Slots :
          (inv[i].h = "schedule_notification" /\ inv[i].calls # <<>>) =>
              LET task == inv[i].calls[1].task
                  p == Loads(task.body)
                  m == ScheduledMessage(inv[i].req)
              IN  /\ task.http_method = "POST"
                  /\ task.url = FunctionUrl(config)
                  /\ p.ok
                  /\ p.val = Obj(<< <<"token", m.token>>,
                                    <<"notification",
                                      Obj(<< <<"title", m.title>>,
                                             <<"body", m.body>> >>)>> >>)
    /\ \A i \in Slots :
          inv[i].task # 0 =>
              /\ Len(inv[i].calls) = 1
              /\ inv[i].calls[1].api = "messaging.send"
              /\ inv[i].calls[1].message
                    = ScheduledMessage(inv[queue[inv[i].task].by].req)
              /\ Done(i) => Resp(i).status \notin {400, 405}

C10_Witness ==
    \E i \in Slots :
        /\ inv[i].task # 0 /\ Done(i) /\ Resp(i).status = 200
        /\ inv[i].calls[1].message.title = Str("Scheduled Notification")
        /\ inv[i].calls[1].message.body
              = Str("This is a scheduled notification from Firebase")

====
